---- MODULE Spec2Model ----
(***************************************************************************)
(* Shipment tracker (server.js): an express application over a JSON        *)
(* document kept in a remote Gist.  Every handler loads the whole          *)
(* document, works on its private copy and, when it changed something,     *)
(* saves the whole document back.                                          *)
(*                                                                         *)
(* Values.  Free text (tracking_number, names, places, notes, the search   *)
(* string, the :id path segment) is a sequence of one-character strings,   *)
(* so that toLowerCase, includes and parseInt can be computed.  A JS       *)
(* undefined text is the one-element sequence Undefined.  Statuses are     *)
(* TLA+ strings, an absent status is NoStatus.  Timestamps are integers    *)
(* counting days (the date portion of the ISO string is the timestamp      *)
(* itself); successive now() calls of one handler may fall on successive   *)
(* days.  A stored weight of 0 stands for null: parseFloat is only applied *)
(* to truthy weights, so 0 is never stored as a number.                    *)
(*                                                                         *)
(* State.  store is the document in the Gist, clock the latest instant     *)
(* written into it, last the latest request with its response.  updCount   *)
(* (successful status updates per shipment id) and deleted (ids whose      *)
(* delete answered success) record the history of the sequential requests. *)
(* Spec runs each handler as one step; SpecConc separates a write          *)
(* handler's load from its save.                                           *)
(***************************************************************************)
EXTENDS Integers, Sequences, FiniteSets, Bags, TLC

VARIABLES store, clock, last, updCount, deleted, version, inflight, arrived, saves

concVars == <<inflight, arrived, saves>>

vars == <<store, clock, last, updCount, deleted, version, concVars>>

(* ---------------------------- bounds ---------------------------------- *)
MaxShipments == 2
MaxEvents == 3
MaxTime == 1
MaxRequests == 3

(* ----------------------- program constants ---------------------------- *)
DaysWindow == 30

validStatuses ==
  <<"Pending", "Picked Up", "In Transit", "Out for Delivery", "Delivered", "Failed", "Returned">>

InitialStatus == "In Transit"

(* ------------------------------ values -------------------------------- *)
Undefined == <<"undefined">>
NoStatus == "<undefined>"
Null == 0

Falsy(v) == v = Undefined \/ v = <<>>

OrElse(v, d) == IF Falsy(v) THEN d ELSE v

(* String.prototype.toLowerCase over the alphabet of the model *)
LowerChar(c) ==
  CASE c = "A" -> "a"
    [] c = "B" -> "b"
    [] c = "T" -> "t"
    [] c = "X" -> "x"
    [] c = "Y" -> "y"
    [] OTHER -> c

toLowerCase(s) == [i \in 1..Len(s) |-> LowerChar(s[i])]

(* String.prototype.includes *)
includes(hay, needle) ==
  \E i \in 0..(Len(hay) - Len(needle)) : SubSeq(hay, i + 1, i + Len(needle)) = needle

(* parseInt(string) with no radix: optional "0x" prefix selects base 16,   *)
(* then the longest prefix of digits; NaN when there is none.              *)
NaN == 0 - 1

DigitVal(c) ==
  CASE c = "0" -> 0
    [] c = "1" -> 1
    [] c = "2" -> 2
    [] c = "3" -> 3
    [] c = "4" -> 4
    [] c = "5" -> 5
    [] c = "6" -> 6
    [] c = "7" -> 7
    [] c = "8" -> 8
    [] c = "9" -> 9
    [] OTHER -> NaN

(* `/api/shipments/${id}`: the decimal text of an id below ten *)
IdText(n) == <<<<"0", "1", "2", "3", "4", "5", "6", "7", "8", "9">>[n + 1]>>

RECURSIVE ParseDigits(_, _, _, _)
ParseDigits(s, i, radix, acc) ==
  IF i > Len(s) \/ DigitVal(s[i]) = NaN
  THEN acc
  ELSE ParseDigits(s, i + 1, radix, (IF acc = NaN THEN 0 ELSE acc) * radix + DigitVal(s[i]))

parseInt(s) ==
  IF Len(s) >= 2 /\ s[1] = "0" /\ s[2] = "x"
  THEN ParseDigits(s, 3, 16, NaN)
  ELSE ParseDigits(s, 1, 10, NaN)

(* Array.prototype.filter is SelectSeq.                                     *)
(* Array.prototype.sort is stable: with the comparator key(b) - key(a) an  *)
(* element goes after every element whose key is greater or equal.  The    *)
(* elements are sorted as pairs [k |-> key, v |-> element]; keys[i] is the *)
(* key of s[i].                                                            *)
RECURSIVE InsertAsc(_, _)
InsertAsc(sorted, x) ==
  IF sorted = <<>> THEN <<x>>
  ELSE IF Head(sorted).k <= x.k
       THEN <<Head(sorted)>> \o InsertAsc(Tail(sorted), x)
       ELSE <<x>> \o sorted

RECURSIVE InsertDesc(_, _)
InsertDesc(sorted, x) ==
  IF sorted = <<>> THEN <<x>>
  ELSE IF Head(sorted).k >= x.k
       THEN <<Head(sorted)>> \o InsertDesc(Tail(sorted), x)
       ELSE <<x>> \o sorted

RECURSIVE SortDescFrom(_, _)
SortDescFrom(sorted, rest) ==
  IF rest = <<>> THEN sorted
  ELSE SortDescFrom(InsertDesc(sorted, Head(rest)), Tail(rest))

SortDesc(s, keys) ==
  LET pairs == [i \in 1..Len(s) |-> [k |-> keys[i], v |-> s[i]]]
      sorted == SortDescFrom(<<>>, pairs)
  IN [i \in 1..Len(s) |-> sorted[i].v]

(* ------------------------------ store --------------------------------- *)
EmptyDB == [shipments |-> <<>>, events |-> <<>>, nextShipmentId |-> 1, nextEventId |-> 1]

(* loadDB / saveDB: JSON.parse of the document gives the handler a copy of *)
(* its own; saveDB replaces the document.                                  *)
loadDB == store

saveDB(db) == db

now(c) == {t \in {c, c + 1} : t <= MaxTime}

later(t) == {u \in {t, t + 1} : u <= MaxTime}

FindShipmentAt(db, id) == {i \in 1..Len(db.shipments) : i = id}

(* db.shipments.find(s => s.id === id), findIndex: the positions that match *)
FindShipment(db, id) == {i \in 1..Len(db.shipments) : db.shipments[i].id = id}

(* ---------------------------- handlers -------------------------------- *)
(* Each handler is a function of the loaded document and the request; it   *)
(* yields the response and the document to save (save = FALSE: no saveDB). *)

Reply(code, body, db, save) == [code |-> code, body |-> body, db |-> db, save |-> save]

ErrorBody(msg) == [error |-> msg]

SuccessBody == [success |-> TRUE]

(* POST /api/shipments, before the load *)
CreateInvalidFour(body) ==
  \/ Falsy(body.tracking_number)
  \/ Falsy(body.sender_name)
  \/ Falsy(body.receiver_name)
  \/ Falsy(body.origin)

CreateInvalid(body) ==
  \/ Falsy(body.tracking_number)
  \/ Falsy(body.sender_name)
  \/ Falsy(body.receiver_name)
  \/ Falsy(body.origin)
  \/ Falsy(body.destination)

(* db.shipments.find(s => s.tracking_number === tracking_number) *)
TrackingExistsLower(db, tracking_number) ==
  \E i \in 1..Len(db.shipments) :
    toLowerCase(db.shipments[i].tracking_number) = tracking_number

TrackingExists(db, tracking_number) ==
  \E i \in 1..Len(db.shipments) : db.shipments[i].tracking_number = tracking_number

(* db.events.push(event) *)
UnshiftEvent(events, event) == <<event>> \o events

PushEvent(events, event) == Append(events, event)

(* the event pushed with a new shipment *)
CreationEventPending(db, shipment, origin, t) ==
  [id |-> db.nextEventId, shipment_id |-> shipment.id, status |-> "Pending",
   location |-> origin, notes |-> <<"c">>, event_time |-> t]

CreationEventNextOwner(db, shipment, origin, t) ==
  [id |-> db.nextEventId, shipment_id |-> db.nextShipmentId + 1, status |-> "In Transit",
   location |-> origin, notes |-> <<"c">>, event_time |-> t]

CreationEvent(db, shipment, origin, t) ==
  [id |-> db.nextEventId, shipment_id |-> shipment.id, status |-> "In Transit",
   location |-> origin, notes |-> <<"c">>, event_time |-> t]

(* id: db.nextShipmentId++ *)
NewShipmentIdByLength(db) == Len(db.shipments) + 1

NewShipmentId(db) == db.nextShipmentId

(* POST /api/shipments *)
CreateShipment(db, body, t1, t2, t3) ==
  IF CreateInvalid(body)
  THEN Reply(400, ErrorBody("Missing required fields"), db, FALSE)
  ELSE IF TrackingExists(db, body.tracking_number)
  THEN Reply(409, ErrorBody("Tracking number already exists"), db, FALSE)
  ELSE
    LET shipment == [id |-> NewShipmentId(db),
                     tracking_number |-> body.tracking_number,
                     sender_name |-> body.sender_name,
                     receiver_name |-> body.receiver_name,
                     origin |-> body.origin,
                     destination |-> body.destination,
                     weight |-> IF body.weight # 0 THEN body.weight ELSE Null,
                     category |-> OrElse(body.category, <<"G">>),
                     status |-> InitialStatus,
                     created_at |-> t1,
                     updated_at |-> t2]
        event == CreationEvent(db, shipment, body.origin, t3)
        db2 == [shipments |-> Append(db.shipments, shipment),
                events |-> PushEvent(db.events, event),
                nextShipmentId |-> db.nextShipmentId + 1,
                nextEventId |-> db.nextEventId + 1]
    IN Reply(201, shipment, db2, TRUE)

(* PATCH /api/shipments/:id/status, before the load *)
StatusInvalidFalsy(body) == body.status = NoStatus \/ body.status = ""

StatusInvalid(body) == \A i \in 1..Len(validStatuses) : validStatuses[i] # body.status

(* PATCH /api/shipments/:id/status *)
UpdateStatus(db, idParam, body, t1, t2) ==
  IF StatusInvalid(body)
  THEN Reply(400, ErrorBody("Invalid status"), db, FALSE)
  ELSE
    LET id == parseInt(idParam)
        found == FindShipment(db, id)
    IN IF found = {}
       THEN Reply(404, ErrorBody("Shipment not found"), db, FALSE)
       ELSE
         LET idx == CHOOSE i \in found : \A j \in found : i <= j
             event == [id |-> db.nextEventId,
                       shipment_id |-> id,
                       status |-> body.status,
                       location |-> OrElse(body.location, <<>>),
                       notes |-> OrElse(body.notes, <<>>),
                       event_time |-> t2]
             db2 == [db EXCEPT !.shipments[idx].status = body.status,
                               !.shipments[idx].updated_at = t1,
                               !.events = PushEvent(db.events, event),
                               !.nextEventId = db.nextEventId + 1]
         IN Reply(200, SuccessBody, db2, TRUE)

(* db.events.filter(e => e.shipment_id !== id) *)
RemoveEventsById(events, id) ==
  LET Others(e) == e.id # id
  IN SelectSeq(events, Others)

RemoveEvents(events, id) ==
  LET Others(e) == e.shipment_id # id
  IN SelectSeq(events, Others)

(* DELETE /api/shipments/:id *)
DeleteShipment(db, idParam) ==
  LET id == parseInt(idParam)
      found == FindShipment(db, id)
  IN IF found = {}
     THEN Reply(404, ErrorBody("Shipment not found"), db, FALSE)
     ELSE
       LET idx == CHOOSE i \in found : \A j \in found : i <= j
           db2 == [db EXCEPT !.shipments = SubSeq(db.shipments, 1, idx - 1)
                                            \o SubSeq(db.shipments, idx + 1, Len(db.shipments)),
                             !.events = RemoveEvents(db.events, id)]
       IN Reply(200, SuccessBody, db2, TRUE)

(* GET /api/shipments/:id *)
GetShipment(db, idParam) ==
  LET id == parseInt(idParam)
      found == FindShipment(db, id)
  IN IF found = {}
     THEN Reply(404, ErrorBody("Shipment not found"), db, FALSE)
     ELSE
       LET idx == CHOOSE i \in found : \A j \in found : i <= j
           Mine(e) == e.shipment_id = id
           events == SelectSeq(db.events, Mine)
       IN Reply(200,
                [shipment |-> db.shipments[idx],
                 events |-> SortDesc(events, [i \in 1..Len(events) |-> events[i].event_time])],
                db, FALSE)

(* the search predicate: any of the five fields contains the lower-cased search *)
MatchesSearch(sh, s) ==
  \/ includes(toLowerCase(sh.tracking_number), s)
  \/ includes(toLowerCase(sh.sender_name), s)
  \/ includes(toLowerCase(sh.receiver_name), s)
  \/ includes(toLowerCase(sh.origin), s)
  \/ includes(toLowerCase(sh.destination), s)

(* status && status !== 'All' *)
StatusFilterAppliesNotAll(status) == status # "All"

StatusFilterAppliesAllToo(status) == status # NoStatus /\ status # ""

StatusFilterApplies(status) == status # NoStatus /\ status # "" /\ status # "All"

(* GET /api/shipments?search=&status= *)
ListShipments(db, search, status) ==
  LET s == toLowerCase(search)
      Matches(sh) == MatchesSearch(sh, s)
      HasStatus(sh) == sh.status = status
      bySearch == IF ~Falsy(search) THEN SelectSeq(db.shipments, Matches) ELSE db.shipments
      byStatus == IF StatusFilterApplies(status)
                  THEN SelectSeq(bySearch, HasStatus) ELSE bySearch
  IN Reply(200, SortDesc(byStatus, [i \in 1..Len(byStatus) |-> byStatus[i].created_at]), db, FALSE)

(* statusMap / catMap / dayMap: one entry per distinct key, in the order   *)
(* the keys were first seen, with the number of occurrences.               *)
RECURSIVE Tally(_, _)
Tally(acc, keys) ==
  IF keys = <<>> THEN acc
  ELSE LET k == Head(keys)
           at == {i \in 1..Len(acc) : acc[i].key = k}
       IN IF at = {}
          THEN Tally(Append(acc, [key |-> k, count |-> 1]), Tail(keys))
          ELSE Tally([i \in 1..Len(acc) |->
                        IF i \in at THEN [acc[i] EXCEPT !.count = @ + 1] ELSE acc[i]],
                     Tail(keys))

CountWhere(s, test(_)) == Len(SelectSeq(s, test))

(* GET /api/stats *)
ComputeStats(db, today) ==
  LET shipments == db.shipments
      thirtyDaysAgo == today - DaysWindow
      Recent(sh) == sh.created_at >= thirtyDaysAgo
      recent == SelectSeq(shipments, Recent)
      days == Tally(<<>>, [i \in 1..Len(recent) |-> recent[i].created_at])
      IsDelivered(sh) == sh.status = "Delivered"
      IsInTransit(sh) == sh.status = "In Transit"
      IsPending(sh) == sh.status = "Pending"
  IN Reply(200,
           [statusCounts |-> Tally(<<>>, [i \in 1..Len(shipments) |-> shipments[i].status]),
            categoryCounts |-> Tally(<<>>, [i \in 1..Len(shipments) |-> shipments[i].category]),
            dailyShipments |-> SortDesc(days, [i \in 1..Len(days) |-> 0 - days[i].key]),
            totals |-> [total |-> Len(shipments),
                        delivered |-> CountWhere(shipments, IsDelivered),
                        in_transit |-> CountWhere(shipments, IsInTransit),
                        pending |-> CountWhere(shipments, IsPending)]],
           db, FALSE)

(* ------------------------------ inputs -------------------------------- *)
BaseBody == [tracking_number |-> <<"T", "1">>, sender_name |-> <<"A">>, receiver_name |-> <<"B">>,
             origin |-> <<"X">>, destination |-> <<"Y">>, weight |-> 0, category |-> Undefined]

RequiredFields == {"tracking_number", "sender_name", "receiver_name", "origin", "destination"}

ValidBodies ==
  {BaseBody, [BaseBody EXCEPT !.tracking_number = <<"t", "2">>, !.weight = 3, !.category = <<"F">>]}

InvalidBodies ==
  {[BaseBody EXCEPT !.tracking_number = Undefined],
   [BaseBody EXCEPT !.sender_name = <<>>],
   [BaseBody EXCEPT !.receiver_name = Undefined],
   [BaseBody EXCEPT !.origin = <<>>],
   [BaseBody EXCEPT !.destination = <<>>]}

CreateBodies == ValidBodies \cup InvalidBodies

IdParams == {<<"1">>, <<"2">>, <<"x">>, <<"0", "x", "1">>}

ValidStatusBodies ==
  {[status |-> "Delivered", location |-> <<"W">>, notes |-> <<"n">>],
   [status |-> "Pending", location |-> Undefined, notes |-> Undefined]}

UpdateRequests ==
  {[id |-> p, body |-> b] : p \in IdParams, b \in ValidStatusBodies}
  \cup {[id |-> <<"1">>, body |-> [status |-> "delivered", location |-> <<"W">>, notes |-> Undefined]],
        [id |-> <<"2">>, body |-> [status |-> NoStatus, location |-> Undefined, notes |-> Undefined]],
        [id |-> <<"x">>, body |-> [status |-> "", location |-> Undefined, notes |-> <<"n">>]]}

ListQueries ==
  {[search |-> Undefined, status |-> NoStatus],
   [search |-> Undefined, status |-> ""],
   [search |-> Undefined, status |-> "Delivered"],
   [search |-> <<>>, status |-> "In Transit"],
   [search |-> <<"T">>, status |-> "All"]}

(* ------------------------- sequential requests ------------------------ *)
NoRequest == [op |-> "none", req |-> <<>>, code |-> 0, body |-> <<>>]

Init ==
  /\ store = EmptyDB
  /\ clock = 0
  /\ last = NoRequest
  /\ updCount = <<>>
  /\ deleted = {}
  /\ version = 0
  /\ inflight = EmptyBag
  /\ arrived = 0
  /\ saves = <<>>

WithinBounds(db) == db.nextShipmentId <= MaxShipments + 1 /\ db.nextEventId <= MaxEvents + 1

(* the response goes out; a handler that reached saveDB replaced the store *)
Commit(r, t) ==
  /\ r.save => WithinBounds(r.db)
  /\ store' = IF r.save THEN saveDB(r.db) ELSE store
  /\ version' = IF r.save THEN version + 1 ELSE version
  /\ clock' = IF r.save THEN t ELSE clock

Create ==
  \E body \in CreateBodies, t1 \in now(clock) :
    \E t2 \in later(t1) :
      \E t3 \in later(t2) :
        LET r == CreateShipment(loadDB, body, t1, t2, t3)
        IN /\ Commit(r, t3)
           /\ last' = [op |-> "create", req |-> body, code |-> r.code, body |-> r.body]
           /\ updCount' = IF r.code = 201 THEN Append(updCount, 0) ELSE updCount
           /\ UNCHANGED <<deleted, concVars>>

Update ==
  \E rq \in UpdateRequests, t1 \in now(clock) :
    \E t2 \in later(t1) :
      LET r == UpdateStatus(loadDB, rq.id, rq.body, t1, t2)
      IN /\ Commit(r, t2)
         /\ last' = [op |-> "update", req |-> rq, code |-> r.code, body |-> r.body]
         /\ updCount' = IF r.code = 200
                        THEN [updCount EXCEPT ![parseInt(rq.id)] = @ + 1] ELSE updCount
         /\ UNCHANGED <<deleted, concVars>>

Delete ==
  \E idParam \in IdParams :
    LET r == DeleteShipment(loadDB, idParam)
    IN /\ Commit(r, clock)
       /\ last' = [op |-> "delete", req |-> [id |-> idParam], code |-> r.code, body |-> r.body]
       /\ deleted' = IF r.code = 200 THEN deleted \cup {parseInt(idParam)} ELSE deleted
       /\ UNCHANGED <<updCount, concVars>>

Get ==
  \E idParam \in IdParams :
    LET r == GetShipment(loadDB, idParam)
    IN /\ last' = [op |-> "get", req |-> [id |-> idParam], code |-> r.code, body |-> r.body]
       /\ UNCHANGED <<store, clock, updCount, deleted, version, concVars>>

List ==
  \E query \in ListQueries :
    LET r == ListShipments(loadDB, query.search, query.status)
    IN /\ last' = [op |-> "list", req |-> query,
                   code |-> r.code, body |-> r.body]
       /\ UNCHANGED <<store, clock, updCount, deleted, version, concVars>>

Stats ==
  \E today \in {clock, clock + DaysWindow + 1} :
    LET r == ComputeStats(loadDB, today)
    IN /\ last' = [op |-> "stats", req |-> [today |-> today], code |-> r.code, body |-> r.body]
       /\ UNCHANGED <<store, clock, updCount, deleted, version, concVars>>

Next == Create \/ Update \/ Delete \/ Get \/ List \/ Stats

Spec == Init /\ [][Next]_vars

(* ------------------------- interleaved requests ----------------------- *)
(* A write handler awaits loadDB, runs to its saveDB without yielding and  *)
(* awaits the save: other requests' loads and saves fall between its load  *)
(* and its save.  inflight is the bag of handlers that have loaded and not *)
(* yet answered, arrived counts the requests received, version counts the  *)
(* saves, and saves keeps the last two requests that saved, the latest     *)
(* last: what each loaded (local, at loadVer), the instants it read (ts)   *)
(* and what it answered (code).                                            *)
ConcRequests ==
  {[op |-> "create", id |-> <<>>, body |-> b] : b \in ValidBodies}
  \cup {[op |-> "update", id |-> <<"1">>, body |-> b] :
          b \in ValidStatusBodies \cup {[status |-> NoStatus, location |-> Undefined, notes |-> Undefined]}}
  \cup {[op |-> "delete", id |-> <<"1">>, body |-> <<>>]}

RejectedEarly(rq) ==
  \/ rq.op = "create" /\ CreateInvalid(rq.body)
  \/ rq.op = "update" /\ StatusInvalid(rq.body)

Handle(db, rq, ts) ==
  CASE rq.op = "create" -> CreateShipment(db, rq.body, ts[1], ts[2], ts[3])
    [] rq.op = "update" -> UpdateStatus(db, rq.id, rq.body, ts[1], ts[2])
    [] rq.op = "delete" -> DeleteShipment(db, rq.id)

(* the instant of the handler's last now() *)
LastInstant(rq, ts) ==
  CASE rq.op = "create" -> ts[3]
    [] rq.op = "update" -> ts[2]
    [] rq.op = "delete" -> clock

(* the handler's own copy of the document, const db = await loadDB() *)
SnapshotReread(h) == store

Snapshot(h) == h.local

(* a request that fails validation answers before any load *)
Reject ==
  \E rq \in ConcRequests :
    /\ arrived < MaxRequests
    /\ RejectedEarly(rq)
    /\ arrived' = arrived + 1
    /\ UNCHANGED <<store, clock, last, updCount, deleted, version, inflight, saves>>

(* await loadDB() *)
Load ==
  \E rq \in ConcRequests :
    /\ arrived < MaxRequests
    /\ ~RejectedEarly(rq)
    /\ arrived' = arrived + 1
    /\ inflight' = inflight (+) SetToBag({[req |-> rq, local |-> loadDB, loadVer |-> version]})
    /\ UNCHANGED <<store, clock, last, updCount, deleted, version, saves>>

(* the rest of the handler: mutate the copy, await saveDB(db), respond *)
Finish ==
  \E h \in BagToSet(inflight), t1 \in now(clock) :
    \E t2 \in later(t1) :
      \E t3 \in later(t2) :
        LET ts == <<t1, t2, t3>>
            r == Handle(Snapshot(h), h.req, ts)
            done == [req |-> h.req, local |-> h.local, loadVer |-> h.loadVer,
                     saveVer |-> version + 1, ts |-> ts, code |-> r.code]
        IN /\ Commit(r, LastInstant(h.req, ts))
           /\ inflight' = inflight (-) SetToBag({h})
           /\ saves' = IF r.save
                       THEN (IF saves = <<>> THEN <<>> ELSE <<saves[Len(saves)]>>) \o <<done>>
                       ELSE saves
           /\ UNCHANGED <<last, updCount, deleted, arrived>>

NextConc == Reject \/ Load \/ Finish

SpecConc == Init /\ [][NextConc]_vars

(* ------------------------------ claims -------------------------------- *)
StatusEnum ==
  {"Pending", "Picked Up", "In Transit", "Out for Delivery", "Delivered", "Failed", "Returned"}

Blank(v) == v = Undefined \/ v = <<>>

TrackingNumbersOf(db) == {db.shipments[i].tracking_number : i \in 1..Len(db.shipments)}

IdsOf(db) == {db.shipments[i].id : i \in 1..Len(db.shipments)}

UniqueTracking ==
  \A i, j \in 1..Len(store.shipments) :
    store.shipments[i].tracking_number = store.shipments[j].tracking_number => i = j

(* C1 as stated: no two shipments of the store have the same               *)
(* tracking_number, and every create whose tracking_number is already in   *)
(* the store answers 409 and adds neither a shipment nor an event.         *)
C1_Original ==
  /\ []UniqueTracking
  /\ [][(last'.op = "create" /\ last'.req.tracking_number \in TrackingNumbersOf(store))
          => (last'.code = 409 /\ store'.shipments = store.shipments
                               /\ store'.events = store.events)]_vars

(* C1 amended: no two shipments of the store have the same                 *)
(* tracking_number; a create whose tracking_number is already in the store *)
(* adds neither a shipment nor an event, and answers 409 when its five     *)
(* required fields are all present (400 when one of them is blank).        *)
C1_UniqueTracking ==
  /\ []UniqueTracking
  /\ [][(last'.op = "create" /\ last'.req.tracking_number \in TrackingNumbersOf(store))
          => /\ store'.shipments = store.shipments
             /\ store'.events = store.events
             /\ last'.code = IF \E f \in RequiredFields : Blank(last'.req[f])
                             THEN 400 ELSE 409]_vars

C1_Witness ==
  /\ last.op = "create" /\ last.code = 409
  /\ last.req.tracking_number \in TrackingNumbersOf(store)
  /\ Len(store.shipments) = 2

(* C2: a create with any of the five required fields missing or empty      *)
(* answers 400 and the store (shipments, events, both counters) is the     *)
(* same after as before.                                                   *)
C2_BlankFieldRejected ==
  [][(last'.op = "create" /\ \E f \in RequiredFields : Blank(last'.req[f]))
       => (last'.code = 400 /\ store' = store)]_vars

C2_Witness ==
  /\ last.op = "create" /\ last.code = 400
  /\ Blank(last.req.destination) /\ ~Blank(last.req.tracking_number)
  /\ Len(store.shipments) > 0

(* C3: right after a successful create, getShipment of the returned id     *)
(* has exactly one event; its status is the new shipment's status and its  *)
(* location the shipment's origin.                                         *)
C3_OneCreationEvent ==
  (last.op = "create" /\ last.code = 201) =>
    LET g == GetShipment(store, IdText(last.body.id))
    IN /\ g.code = 200
       /\ g.body.shipment = last.body
       /\ Len(g.body.events) = 1
       /\ g.body.events[1].status = last.body.status
       /\ g.body.events[1].location = last.body.origin

C3_Witness ==
  /\ last.op = "create" /\ last.code = 201
  /\ last.body.id = 2
  /\ Len(store.events) >= 2

(* C4: an updateStatus whose status is outside the seven enum values       *)
(* answers 400 and changes neither shipments nor events, whether or not    *)
(* the id resolves.                                                        *)
C4_BadStatusRejected ==
  [][(last'.op = "update" /\ last'.req.body.status \notin StatusEnum)
       => (last'.code = 400 /\ store' = store)]_vars

C4_Witness ==
  /\ last.op = "update" /\ last.code = 400
  /\ last.req.body.status = "delivered"
  /\ parseInt(last.req.id) \in IdsOf(store)

EventsOf(db, id) ==
  LET Mine(e) == e.shipment_id = id
  IN SelectSeq(db.events, Mine)

C7_TotalIsListLength ==
  \A today \in {clock, clock + DaysWindow + 1} :
    ComputeStats(store, today).body.totals.total
      = Len(ListShipments(store, Undefined, NoStatus).body)

C7_Witness ==
  /\ last.op = "stats"
  /\ last.body.totals.total = 2
  /\ Len(last.body.statusCounts) = 2

SeqRange(q) == {q[i] : i \in 1..Len(q)}

ListsExactly(result, S) ==
  /\ SeqRange(result) = {sh \in SeqRange(store.shipments) : sh.status = S}
  /\ Len(result) = Cardinality(SeqRange(result))

ListsAll(result) ==
  /\ SeqRange(result) = SeqRange(store.shipments)
  /\ Len(result) = Len(store.shipments)

C9_UnresolvedIdNotFound ==
  [][(/\ \/ last'.op = "update" /\ last'.req.body.status \in StatusEnum
         \/ last'.op = "delete"
      /\ parseInt(last'.req.id) \notin IdsOf(store))
       => (last'.code = 404 /\ store' = store)]_vars

C9_Witness ==
  /\ last.op = "update" /\ last.code = 404
  /\ last.req.id = <<"1">>
  /\ 1 \in deleted
  /\ Len(store.shipments) = 1

(* the last two requests that saved each loaded before the other saved *)
Raced ==
  /\ Len(saves) = 2
  /\ saves[1].loadVer < saves[2].saveVer
  /\ saves[2].loadVer < saves[1].saveVer

(* C10: when two write requests both load before either saves and both     *)
(* answer success, the store after the later save is what the later        *)
(* request made of the document it loaded: nothing of the earlier          *)
(* request's save is in it.                                                *)
C10_LastWriteWins ==
  Raced =>
    LET first == saves[1]
        second == saves[2]
    IN /\ first.code \in {200, 201} /\ second.code \in {200, 201}
       /\ second.saveVer = version
       /\ store = Handle(second.local, second.req, second.ts).db
       /\ \A e \in SeqRange(store.events) :
            e \in SeqRange(second.local.events) \/ e.id = second.local.nextEventId
       /\ \A sh \in SeqRange(store.shipments) :
            sh.id \in IdsOf(second.local) \/ sh.id = second.local.nextShipmentId

C10_Witness ==
  /\ Raced
  /\ saves[1].req.op = "update" /\ saves[1].req.body.status = "Delivered" /\ saves[1].code = 200
  /\ saves[2].req.op = "update" /\ saves[2].req.body.status = "Pending" /\ saves[2].code = 200
  /\ \A e \in SeqRange(store.events) : e.status # "Delivered"
  /\ Len(store.events) = 2

IsPrefix(p, q) == Len(p) <= Len(q) /\ SubSeq(q, 1, Len(p)) = p

(* the events of db whose shipment is among ids, in the order of db *)
EventsOwnedBy(db, ids) ==
  LET Owned(e) == e.shipment_id \in ids
  IN SelectSeq(db.events, Owned)

(* what a save step keeps of the events: those whose shipment is still in  *)
(* the store stay, field for field and in the same order, at the front of  *)
(* the event list; a create or updateStatus keeps the whole list as a      *)
(* prefix of the new one, a delete leaves exactly the events of the        *)
(* shipments that remain.                                                  *)
KeepsEvents(op) ==
  /\ IsPrefix(EventsOwnedBy(store, IdsOf(store')), store'.events)
  /\ (op \in {"create", "update"}) => IsPrefix(store.events, store'.events)
  /\ (op = "delete") => store'.events = EventsOwnedBy(store, IdsOf(store'))

(* C11 as stated: events are append-only.  Every save keeps the events     *)
(* whose shipment is not deleted, unchanged and in order, and no create or *)
(* updateStatus modifies, reorders or removes an existing event.           *)
C11_Original ==
  [][(version' = version + 1) => KeepsEvents(saves'[Len(saves')].req.op)]_vars

(* C11 amended: events are append-only across every write request that     *)
(* saves with no other request's save between its load and its save, as    *)
(* all requests do when they run one after the other.                      *)
C11_EventsAppendOnly ==
  [][(version' = version + 1 /\ saves'[Len(saves')].loadVer = version)
       => KeepsEvents(saves'[Len(saves')].req.op)]_vars

C11_Witness ==
  /\ Len(saves) = 2
  /\ saves[1].req.op = "update" /\ saves[1].loadVer = saves[1].saveVer - 1
  /\ saves[2].req.op = "update" /\ saves[2].loadVer = saves[2].saveVer - 1
  /\ Len(store.events) = 3
  /\ store.events[1].id < store.events[2].id /\ store.events[2].id < store.events[3].id
  /\ store.events[3].status = saves[2].req.body.status

(* C12: in every document saved, also when requests interleave their load *)
(* and save, every event's shipment_id is the id of a shipment of the same *)
(* document and every shipment has at least one event.                     *)
C12_ReferentialIntegrity ==
  /\ \A e \in SeqRange(store.events) : e.shipment_id \in IdsOf(store)
  /\ \A id \in IdsOf(store) : EventsOf(store, id) # <<>>

C12_Witness ==
  /\ Raced
  /\ saves[1].req.op = "delete" /\ saves[1].code = 200
  /\ saves[2].req.op = "update" /\ saves[2].code = 200
  /\ 1 \in IdsOf(store)
  /\ Len(EventsOf(store, 1)) = 2

EventIdsOf(db) == {db.events[i].id : i \in 1..Len(db.events)}

(* C13: shipment ids are pairwise distinct, event ids are pairwise         *)
(* distinct and every id is below its counter; under sequential requests   *)
(* neither counter ever decreases, and a successful create takes an id     *)
(* that no shipment, present or deleted, has had.                          *)
C13_IdentifierAssignment ==
  /\ [](/\ \A i, j \in 1..Len(store.shipments) :
             store.shipments[i].id = store.shipments[j].id => i = j
        /\ \A i, j \in 1..Len(store.events) :
             store.events[i].id = store.events[j].id => i = j
        /\ \A id \in IdsOf(store) : id < store.nextShipmentId
        /\ \A id \in EventIdsOf(store) : id < store.nextEventId
        /\ \A id \in deleted : id < store.nextShipmentId /\ id \notin IdsOf(store))
  /\ [][/\ store'.nextShipmentId >= store.nextShipmentId
        /\ store'.nextEventId >= store.nextEventId
        /\ (last'.op = "create" /\ last'.code = 201) =>
             /\ last'.body.id \notin deleted \cup IdsOf(store)
             /\ last'.body.id \in IdsOf(store')
             /\ last'.body.id >= store.nextShipmentId]_vars

C13_Witness ==
  /\ last.op = "create" /\ last.code = 201
  /\ deleted = {1}
  /\ last.body.id = 2
  /\ IdsOf(store) = {2}

====
